---- MODULE Spec2Model ----
(***************************************************************************)
(* Model of contrib/worker-visualization/log_to_html.py: the worker-log    *)
(* visualiser.  One run of main() is a straight-line pipeline              *)
(*   parse -> collect messages -> sort -> align -> render -> write report  *)
(*         -> visualize (topology graph) -> open browser                   *)
(* over two input files: block_analysis.json (messages and topology, used  *)
(* for the table) and blocks.json (the summary, used for the graph).       *)
(*                                                                         *)
(* Python strings that the program slices, converts or compares (worker    *)
(* identifiers, the literals "all", "none", "self", "time") are tuples of  *)
(* one-character strings, so that x[1::], int(...) and the string order    *)
(* are computed as Python computes them.  Strings that are only copied     *)
(* (message type, payload, code lines, arrows) are TLA+ strings.           *)
(* A Python dict with significant key order (the two JSON files) is a      *)
(* record [keys |-> <<k1, ...>>, val |-> [k \in {k1, ...} |-> value]].     *)
(* A JSON object with optional fields (a block log, a message) is a        *)
(* function from field names to values; an absent field is absent from     *)
(* DOMAIN.                                                                 *)
(***************************************************************************)
EXTENDS Integers, Sequences, FiniteSets, TLC

VARIABLES
    block_analysis_file, \* content of block_analysis.json (input)
    summary_file,        \* content of blocks.json (input)
    block_logs,          \* main: parsed block_analysis.json
    all_messages,        \* main: collected, later sorted, messages
    timestamp_to_message,\* html_dict_to_html_table: the timeline matrix
    table,               \* html_dict_to_html_table: the rendered table
    report,              \* report.html as written, or NoFile
    graph,               \* visualize: the networkx DiGraph, or NoGraph
    graph_files,         \* graph.dot / graph.png written
    browser,             \* webbrowser.open called
    pc                   \* position of main

vars == <<block_analysis_file, summary_file, block_logs, all_messages,
          timestamp_to_message, table, report, graph, graph_files, browser, pc>>

----------------------------------------------------------------------------
(* Bounds of the explored inputs *)

MaxMessages == 2    \* length of the message list of the first worker of a file
MaxNeighbours == 1  \* length of a predecessors / successors list

----------------------------------------------------------------------------
(* Strings *)

B0 == <<"B", "0">>
B1 == <<"B", "1">>
B2 == <<"B", "2">>
B7 == <<"B", "7">>
B10 == <<"B", "1", "0">>

ALL == <<"a", "l", "l">>
NONE == <<"n", "o", "n", "e">>
SELF == <<"s", "e", "l", "f">>
TIME == <<"t", "i", "m", "e">>

Digits == <<"0", "1", "2", "3", "4", "5", "6", "7", "8", "9">>

\* value of a decimal digit character
DigitVal(c) == (CHOOSE i \in 1..10 : Digits[i] = c) - 1

\* Python int(s) for a non-empty string of decimal digits
RECURSIVE IntOf(_)
IntOf(s) ==
    IF Len(s) = 0 THEN 0
    ELSE 10 * IntOf(SubSeq(s, 1, Len(s) - 1)) + DigitVal(s[Len(s)])

\* Python x[1::]
Slice1(x) == IF Len(x) = 0 THEN x ELSE Tail(x)

\* Python a < b on strings of digits (lexicographic by code point)
RECURSIVE StrLess(_, _)
StrLess(a, b) ==
    IF Len(b) = 0 THEN FALSE
    ELSE IF Len(a) = 0 THEN TRUE
    ELSE IF a[1] # b[1] THEN DigitVal(a[1]) < DigitVal(b[1])
    ELSE StrLess(Tail(a), Tail(b))

----------------------------------------------------------------------------
(* JSON objects *)

NoField == [x \in {} |-> x]

\* a field that is present when opt = {v} and absent when opt = {}
Field(name, opt) == IF opt = {} THEN NoField ELSE name :> (CHOOSE v \in opt : TRUE)

Has(obj, name) == name \in DOMAIN obj

\* a dict from a sequence of distinct keys and a value per position
Dict(ks, vs) ==
    [keys |-> ks,
     val |-> [k \in {ks[i] : i \in 1..Len(ks)} |->
                 vs[CHOOSE i \in 1..Len(ks) : ks[i] = k]]]

KeySet(d) == {d.keys[i] : i \in 1..Len(d.keys)}

EmptyDict == [keys |-> <<>>, val |-> NoField]

Raise(e) == [error |-> e]
Ok(v) == [error |-> "", value |-> v]
Failed(r) == r.error # ""

----------------------------------------------------------------------------
(* main: collecting and sorting the messages *)

\* for key in block_logs: if "messages" in block_logs[key]: all_messages += ...
RECURSIVE CollectFrom(_, _)
CollectFrom(logs, i) ==
    IF i > Len(logs.keys) THEN <<>>
    ELSE LET infos == logs.val[logs.keys[i]]
         IN (IF Has(infos, "messages") THEN infos["messages"] ELSE <<>>)
            \o CollectFrom(logs, i + 1)

CollectMessages(logs) == CollectFrom(logs, 1)

NeverEmpty(msgs) == FALSE

\* if not all_messages: return
NoMessages(msgs) == Len(msgs) = 0

\* the sort key (entry["timestamp"], entry["from"][1::]), compared as tuples
MessageKeyLess(a, b) ==
    \/ a["timestamp"] < b["timestamp"]
    \/ /\ a["timestamp"] = b["timestamp"]
       /\ StrLess(Slice1(a["from"]), Slice1(b["from"]))

\* x goes behind every element whose key is not greater: the sort is stable
InsertMessage(sorted, x) ==
    LET later == {i \in 1..Len(sorted) : MessageKeyLess(x, sorted[i])}
        at == IF later = {} THEN Len(sorted) + 1
              ELSE CHOOSE i \in later : \A j \in later : i <= j
    IN SubSeq(sorted, 1, at - 1) \o <<x>> \o SubSeq(sorted, at, Len(sorted))

RECURSIVE SortFrom(_, _, _)
SortFrom(msgs, i, acc) ==
    IF i > Len(msgs) THEN acc
    ELSE SortFrom(msgs, i + 1, InsertMessage(acc, msgs[i]))

UnsortedMessages(msgs) == msgs

\* sorted(all_messages, key=lambda entry: (entry["timestamp"], entry["from"][1::]))
SortMessages(msgs) == SortFrom(msgs, 1, <<>>)

----------------------------------------------------------------------------
(* html_dict_to_html_table: the aligner *)

ColumnKeyFirstDigit(x) == DigitVal(x[2])

\* the key int(x[1::]) of a worker identifier
ColumnKey(x) == IntOf(Slice1(x))

InsertKey(sorted, x) ==
    LET later == {i \in 1..Len(sorted) : ColumnKey(x) < ColumnKey(sorted[i])}
        at == IF later = {} THEN Len(sorted) + 1
              ELSE CHOOSE i \in later : \A j \in later : i <= j
    IN SubSeq(sorted, 1, at - 1) \o <<x>> \o SubSeq(sorted, at, Len(sorted))

RECURSIVE SortKeysFrom(_, _, _)
SortKeysFrom(ks, i, acc) ==
    IF i > Len(ks) THEN acc
    ELSE SortKeysFrom(ks, i + 1, InsertKey(acc, ks[i]))

\* sorted_keys = sorted(block_logs.keys(), key=lambda x: int(x[1::]))
SortedKeys(logs) == SortKeysFrom(logs.keys, 1, <<>>)

\* index_dict: worker identifier -> column (0-based)
IndexDict(sorted_keys) ==
    [k \in {sorted_keys[i] : i \in 1..Len(sorted_keys)} |->
        (CHOOSE i \in 1..Len(sorted_keys) : sorted_keys[i] = k) - 1]

LookupOrZero(index_dict, k) ==
    IF k \in DOMAIN index_dict THEN Ok(index_dict[k]) ELSE Ok(0)

\* index_dict[message["from"]]: a KeyError for an unknown worker
Lookup(index_dict, k) ==
    IF k \in DOMAIN index_dict THEN Ok(index_dict[k]) ELSE Raise("KeyError")

\* the "" that fills a fresh row
EmptySlot == [empty |-> TRUE]
IsEmptySlot(slot) == Has(slot, "empty")

PlaceIfFree(matrix, rel, column, message, width) ==
    LET fresh == rel \notin DOMAIN matrix.val
        row == IF fresh THEN [j \in 1..width |-> EmptySlot] ELSE matrix.val[rel]
        free == IsEmptySlot(row[column + 1])
    IN [keys |-> IF fresh THEN Append(matrix.keys, rel) ELSE matrix.keys,
        val |-> (rel :> (IF free THEN [row EXCEPT ![column + 1] = message] ELSE row))
                @@ matrix.val]

\* timestamp_to_message.setdefault(rel, [""] * len(block_logs))[column] = message
Place(matrix, rel, column, message, width) ==
    LET fresh == rel \notin DOMAIN matrix.val
        row == IF fresh THEN [j \in 1..width |-> EmptySlot] ELSE matrix.val[rel]
    IN [keys |-> IF fresh THEN Append(matrix.keys, rel) ELSE matrix.keys,
        val |-> (rel :> [row EXCEPT ![column + 1] = message]) @@ matrix.val]

\* for message in all_messages: ...
RECURSIVE AlignFrom(_, _, _, _, _, _)
AlignFrom(msgs, i, matrix, first_timestamp, index_dict, width) ==
    IF i > Len(msgs) THEN Ok(matrix)
    ELSE LET message == msgs[i]
             column == Lookup(index_dict, message["from"])
         IN IF Failed(column) THEN column
            ELSE AlignFrom(msgs, i + 1,
                           Place(matrix, message["timestamp"] - first_timestamp,
                                 column.value, message, width),
                           first_timestamp, index_dict, width)

\* lines 89-97; all_messages[0] is an IndexError on an empty list, and int(...)
\* of the integer timestamp is that timestamp
Align(msgs, logs) ==
    IF Len(msgs) = 0 THEN Raise("IndexError")
    ELSE AlignFrom(msgs, 1, EmptyDict, msgs[1]["timestamp"],
                   IndexDict(SortedKeys(logs)), Len(logs.keys))

----------------------------------------------------------------------------
(* html_for_message: the classifier and the cell renderer *)

ClassifyUnreachableAsError(message, infos) ==
    LET predecessors == IF ~Has(infos, "predecessors") THEN <<NONE>>
                        ELSE infos["predecessors"]
        successors == IF ~Has(infos, "successors") THEN <<NONE>>
                      ELSE infos["successors"]
        direction == message["type"]
    IN  CASE direction = "BLOCK_POSTCONDITION" ->
               [senders |-> predecessors, receivers |-> successors, arrow |-> "&darr;"]
          [] direction \in {"ERROR_CONDITION", "ERROR_CONDITION_UNREACHABLE"} ->
               [senders |-> successors, receivers |-> predecessors, arrow |-> "&uarr;"]
          [] direction = "FOUND_RESULT" ->
               [senders |-> <<message["from"]>>, receivers |-> <<ALL>>, arrow |-> "-"]
          [] OTHER ->
               [senders |-> <<ALL>>, receivers |-> <<ALL>>, arrow |-> "-"]

ClassifyAbsentAsAll(message, infos) ==
    LET predecessors == IF ~Has(infos, "predecessors") THEN <<NONE>>
                        ELSE infos["predecessors"]
        successors == IF ~Has(infos, "successors") THEN <<ALL>>
                      ELSE infos["successors"]
        direction == message["type"]
    IN  CASE direction = "BLOCK_POSTCONDITION" ->
               [senders |-> predecessors, receivers |-> successors, arrow |-> "&darr;"]
          [] direction = "ERROR_CONDITION" ->
               [senders |-> successors, receivers |-> predecessors, arrow |-> "&uarr;"]
          [] direction = "ERROR_CONDITION_UNREACHABLE" ->
               [senders |-> successors, receivers |-> <<ALL>>, arrow |-> "&uarr;"]
          [] direction = "FOUND_RESULT" ->
               [senders |-> <<message["from"]>>, receivers |-> <<ALL>>, arrow |-> "-"]
          [] OTHER ->
               [senders |-> <<ALL>>, receivers |-> <<ALL>>, arrow |-> "-"]

ClassifySelfAsSender(message, infos) ==
    LET predecessors == IF ~Has(infos, "predecessors") THEN <<message["from"]>>
                        ELSE infos["predecessors"]
        successors == IF ~Has(infos, "successors") THEN <<NONE>>
                      ELSE infos["successors"]
        direction == message["type"]
    IN  CASE direction = "BLOCK_POSTCONDITION" ->
               [senders |-> predecessors, receivers |-> successors, arrow |-> "&darr;"]
          [] direction = "ERROR_CONDITION" ->
               [senders |-> successors, receivers |-> predecessors, arrow |-> "&uarr;"]
          [] direction = "ERROR_CONDITION_UNREACHABLE" ->
               [senders |-> successors, receivers |-> <<ALL>>, arrow |-> "&uarr;"]
          [] direction = "FOUND_RESULT" ->
               [senders |-> <<message["from"]>>, receivers |-> <<ALL>>, arrow |-> "-"]
          [] OTHER ->
               [senders |-> <<ALL>>, receivers |-> <<ALL>>, arrow |-> "-"]

\* lines 47-67: senders, receivers and arrow of a message of the worker infos
Classify(message, infos) ==
    LET predecessors == IF ~Has(infos, "predecessors") THEN <<NONE>>
                        ELSE infos["predecessors"]
        successors == IF ~Has(infos, "successors") THEN <<NONE>>
                      ELSE infos["successors"]
        direction == message["type"]
    IN  CASE direction = "BLOCK_POSTCONDITION" ->
               [senders |-> predecessors, receivers |-> successors, arrow |-> "&darr;"]
          [] direction = "ERROR_CONDITION" ->
               [senders |-> successors, receivers |-> predecessors, arrow |-> "&uarr;"]
          [] direction = "ERROR_CONDITION_UNREACHABLE" ->
               [senders |-> successors, receivers |-> <<ALL>>, arrow |-> "&uarr;"]
          [] direction = "FOUND_RESULT" ->
               [senders |-> <<message["from"]>>, receivers |-> <<ALL>>, arrow |-> "-"]
          [] OTHER ->
               [senders |-> <<ALL>>, receivers |-> <<ALL>>, arrow |-> "-"]

\* [x for x in lines if x]; the "\n".join of it is kept as the list of its lines
RECURSIVE NonEmptyLines(_)
NonEmptyLines(lines) ==
    IF Len(lines) = 0 THEN <<>>
    ELSE (IF lines[1] = "" THEN <<>> ELSE <<lines[1]>>) \o NonEmptyLines(Tail(lines))

\* message["payload"] if message["payload"] else "no contents available"
PayloadText(message) ==
    IF ~Has(message, "payload") THEN Raise("KeyError")
    ELSE IF message["payload"] = "" THEN Ok("no contents available")
    ELSE Ok(message["payload"])

\* the markup of one message; ", ".join(names) is kept as the list of names
html_for_message(message, block_log) ==
    IF IsEmptySlot(message) THEN Ok(<<[text |-> ""], "">>)
    ELSE IF message["from"] \notin DOMAIN block_log.val THEN Raise("KeyError")
    ELSE LET infos == block_log.val[message["from"]]
             c == Classify(message, infos)
             result == PayloadText(message)
         IN IF Failed(result) THEN result
            ELSE Ok([title |-> NonEmptyLines(infos["code"]),
                     arrow |-> c.arrow,
                     sender |-> IF Len(c.senders) = 0 THEN <<SELF>> ELSE c.senders,
                     receiver |-> c.receivers,
                     direction |-> message["type"],
                     textarea |-> result.value])

----------------------------------------------------------------------------
(* html_dict_to_html_table: the table renderer *)

\* Python str(n) of an integer
RECURSIVE NatToStr(_)
NatToStr(n) ==
    IF n < 10 THEN <<Digits[n + 1]>>
    ELSE Append(NatToStr(n \div 10), Digits[(n % 10) + 1])

IntToStr(n) == IF n < 0 THEN <<"-">> \o NatToStr(-n) ELSE NatToStr(n)

\* type_to_klass[msg["type"]] if msg["type"] in type_to_klass else "normal"
Klass(type) ==
    CASE type = "BLOCK_POSTCONDITION" -> "precondition"
      [] type = "ERROR_CONDITION" -> "postcondition"
      [] type = "ERROR_CONDITION_UNREACHABLE" -> "postcondition"
      [] OTHER -> "normal"

\* one <td> per slot of a row; the first failure of html_for_message propagates
RECURSIVE RenderCells(_, _, _, _)
RenderCells(messages, i, block_log, acc) ==
    IF i > Len(messages) THEN Ok(acc)
    ELSE LET msg == messages[i]
         IN IF IsEmptySlot(msg)
            THEN RenderCells(messages, i + 1, block_log, Append(acc, [td |-> "empty"]))
            ELSE LET html == html_for_message(msg, block_log)
                 IN IF Failed(html) THEN html
                    ELSE RenderCells(messages, i + 1, block_log,
                                     Append(acc, [td |-> "message",
                                                  klass |-> Klass(msg["type"]),
                                                  html |-> html.value]))

\* for timestamp in timestamp_to_message: one <tr>, in the dict's insertion order
RECURSIVE RenderRows(_, _, _, _)
RenderRows(matrix, i, block_log, acc) ==
    IF i > Len(matrix.keys) THEN Ok(acc)
    ELSE LET timestamp == matrix.keys[i]
             cells == RenderCells(matrix.val[timestamp], 1, block_log, <<>>)
         IN IF Failed(cells) THEN cells
            ELSE RenderRows(matrix, i + 1, block_log,
                            Append(acc, [time |-> IntToStr(timestamp),
                                         cells |-> cells.value]))

\* lines 98-123: the header row and the data rows
RenderTable(matrix, block_log) ==
    LET rows == RenderRows(matrix, 1, block_log, <<>>)
    IN IF Failed(rows) THEN rows
       ELSE Ok([headers |-> <<TIME>> \o SortedKeys(block_log), rows |-> rows.value])

----------------------------------------------------------------------------
(* visualize: the topology graph *)

EmptyGraph == [nodes |-> NoField, edges |-> {}]

\* g.add_node(key, shape="box", label=label)
AddNode(g, key, attrs) ==
    [g EXCEPT !.nodes = (key :> (attrs @@ (IF key \in DOMAIN g.nodes THEN g.nodes[key]
                                           ELSE NoField))) @@ g.nodes]

AddEdgeReversed(g, u, v) ==
    [nodes |-> g.nodes @@ (u :> NoField) @@ (v :> NoField),
     edges |-> g.edges \cup {<<v, u>>}]

\* g.add_edge(u, v): networkx adds the end points that are not yet nodes
AddEdge(g, u, v) ==
    [nodes |-> g.nodes @@ (u :> NoField) @@ (v :> NoField),
     edges |-> g.edges \cup {<<u, v>>}]

\* label = key + ":\n" + code if code else key
Label(key, code) == IF Len(code) = 0 THEN [id |-> key] ELSE [id |-> key, code |-> code]

RECURSIVE AddNodesFrom(_, _, _)
AddNodesFrom(logs, i, g) ==
    IF i > Len(logs.keys) THEN g
    ELSE LET key == logs.keys[i]
             code == NonEmptyLines(logs.val[key]["code"])
         IN AddNodesFrom(logs, i + 1,
                AddNode(g, key, [shape |-> "box", label |-> Label(key, code)]))

RECURSIVE AddSuccessorsFrom(_, _, _, _)
AddSuccessorsFrom(key, successors, j, g) ==
    IF j > Len(successors) THEN g
    ELSE AddSuccessorsFrom(key, successors, j + 1, AddEdge(g, key, successors[j]))

RECURSIVE AddEdgesFrom(_, _, _)
AddEdgesFrom(logs, i, g) ==
    IF i > Len(logs.keys) THEN g
    ELSE LET key == logs.keys[i]
             infos == logs.val[key]
         IN AddEdgesFrom(logs, i + 1,
                IF Has(infos, "successors")
                THEN AddSuccessorsFrom(key, infos["successors"], 1, g)
                ELSE g)

\* lines 127-136
BuildGraph(logs) == AddEdgesFrom(logs, 1, AddNodesFrom(logs, 1, EmptyGraph))

----------------------------------------------------------------------------
(* The input files *)

BlockLog(code, predecessors, successors, messages) ==
    ("code" :> code) @@ Field("predecessors", predecessors)
                     @@ Field("successors", successors)
                     @@ Field("messages", messages)

Message(from, timestamp, type, payload) ==
    ("from" :> from) @@ ("timestamp" :> timestamp) @@ ("type" :> type)
                     @@ Field("payload", payload)

\* the topology of a log: the same workers without their messages
WithoutMessages(logs) ==
    [keys |-> logs.keys,
     val |-> [k \in DOMAIN logs.val |->
                 [f \in DOMAIN logs.val[k] \ {"messages"} |-> logs.val[k][f]]]]

Types == {"BLOCK_POSTCONDITION", "ERROR_CONDITION", "ERROR_CONDITION_UNREACHABLE",
          "FOUND_RESULT", "STATISTICS"}
Timestamps == {100, 102}
Payloads == {{}, {""}, {"x > 0"}}
Code == <<"int x = 0;", "", "x++;">>

\* sequences over S of length at most n
RECURSIVE SeqsUpTo(_, _)
SeqsUpTo(S, n) ==
    IF n = 0 THEN {<<>>}
    ELSE LET shorter == SeqsUpTo(S, n - 1)
         IN shorter \cup {Append(q, x) : q \in shorter, x \in S}

\* an optional field: absent, or one of the values
Optional(S) == {{}} \cup {{v} : v \in S}

\* key orders of a file of one or two workers
KeyOrders(S) ==
    {<<a>> : a \in S} \cup {q \in {<<a, b>> : a \in S, b \in S} : q[1] # q[2]}

\* Timeline inputs: one or two of the workers B2, B10 (numeric and string
\* order of the suffixes differ) without topology; a worker lists messages of
\* B2, of B10 and of B7, which is no worker of any file.
TimelineMessages ==
    {Message(w, t, y, {"x > 0"}) :
         w \in {B2, B10}, t \in Timestamps, y \in {"BLOCK_POSTCONDITION", "FOUND_RESULT"}}
    \cup {Message(B7, t, "FOUND_RESULT", {"x > 0"}) : t \in Timestamps}
    \cup {Message(B2, 102, "ERROR_CONDITION", {})}

InitTimeline ==
    \E ks \in KeyOrders({B2, B10}) :
    \E first \in Optional(SeqsUpTo(TimelineMessages, MaxMessages)) :
    \E other \in Optional(SeqsUpTo(TimelineMessages, 1)) :
        /\ block_analysis_file =
             Dict(ks, [i \in 1..Len(ks) |->
                          BlockLog(Code, {}, {}, IF i = 1 THEN first ELSE other)])
        /\ Len(ks) = 1 => other = {}
        /\ summary_file = WithoutMessages(block_analysis_file)

\* Classifier inputs: workers B0, B1, B2; one message of B2, of any type and
\* payload, and any declaration of B2's predecessors and successors.
InitClassifier ==
    \E predecessors \in Optional(SeqsUpTo({B0, B1}, MaxNeighbours)) :
    \E successors \in Optional(SeqsUpTo({B0, B1}, MaxNeighbours)) :
    \E y \in Types : \E payload \in Payloads :
        /\ block_analysis_file =
             Dict(<<B0, B1, B2>>,
                  <<BlockLog(Code, {}, {}, {}),
                    BlockLog(Code, {}, {}, {}),
                    BlockLog(Code, predecessors, successors,
                             {<<Message(B2, 100, y, payload)>>})>>)
        /\ summary_file = WithoutMessages(block_analysis_file)

\* The scenario of two workers B0 -> B1 and one message of B0 at 100
ScenarioLogs ==
    Dict(<<B0, B1>>,
         <<BlockLog(Code, {}, {<<B1>>},
                    {<<Message(B0, 100, "BLOCK_POSTCONDITION", {"x > 0"})>>}),
           BlockLog(Code, {<<B0>>}, {}, {})>>)

InitScenario ==
    /\ block_analysis_file = ScenarioLogs
    /\ summary_file = WithoutMessages(ScenarioLogs)

\* Topology inputs: a summary of one or two of the workers B0, B1, B2 with any
\* successors, next to a log of the single worker B0.
InitTopology ==
    \E ks \in KeyOrders({B0, B1, B2}) :
    \E succ \in [1..2 -> Optional(SeqsUpTo({B0, B1, B2}, MaxNeighbours))] :
    \E code \in {<<"">>, Code} :
        /\ Len(ks) = 1 => succ[2] = {}
        /\ summary_file =
             Dict(ks, [i \in 1..Len(ks) |-> BlockLog(code, {}, succ[i], {})])
        /\ block_analysis_file =
             Dict(<<B0>>, <<BlockLog(Code, {}, {},
                    {<<Message(B0, 100, "BLOCK_POSTCONDITION", {"x > 0"})>>})>>)

NoTable == [headers |-> <<>>, rows |-> <<>>]
NoFile == [written |-> FALSE]
NoGraph == [built |-> FALSE]

Init ==
    /\ InitTimeline \/ InitClassifier \/ InitScenario \/ InitTopology
    /\ block_logs = EmptyDict
    /\ all_messages = <<>>
    /\ timestamp_to_message = EmptyDict
    /\ table = NoTable
    /\ report = NoFile
    /\ graph = NoGraph
    /\ graph_files = {}
    /\ browser = FALSE
    /\ pc = "start"

----------------------------------------------------------------------------
(* main *)

\* line 148
ParseLogs ==
    /\ pc = "start"
    /\ block_logs' = block_analysis_file
    /\ pc' = "collect"
    /\ UNCHANGED <<block_analysis_file, summary_file, all_messages,
                   timestamp_to_message, table, report, graph, graph_files, browser>>

\* lines 149-152
Collect ==
    /\ pc = "collect"
    /\ all_messages' = CollectMessages(block_logs)
    /\ pc' = "check"
    /\ UNCHANGED <<block_analysis_file, summary_file, block_logs,
                   timestamp_to_message, table, report, graph, graph_files, browser>>

\* lines 153-154
ReturnEmpty ==
    /\ pc = "check"
    /\ NoMessages(all_messages)
    /\ pc' = "done"
    /\ UNCHANGED <<block_analysis_file, summary_file, block_logs, all_messages,
                   timestamp_to_message, table, report, graph, graph_files, browser>>

\* line 155
Sort ==
    /\ pc = "check"
    /\ ~NoMessages(all_messages)
    /\ all_messages' = SortMessages(all_messages)
    /\ pc' = "align"
    /\ UNCHANGED <<block_analysis_file, summary_file, block_logs,
                   timestamp_to_message, table, report, graph, graph_files, browser>>

\* lines 89-97, reached from line 159
AlignMessages ==
    /\ pc = "align"
    /\ ~Failed(Align(all_messages, block_logs))
    /\ timestamp_to_message' = Align(all_messages, block_logs).value
    /\ pc' = "render"
    /\ UNCHANGED <<block_analysis_file, summary_file, block_logs, all_messages,
                   table, report, graph, graph_files, browser>>

\* the exception of lines 89-97 leaves main
AlignFails ==
    /\ pc = "align"
    /\ Failed(Align(all_messages, block_logs))
    /\ pc' = "error"
    /\ UNCHANGED <<block_analysis_file, summary_file, block_logs, all_messages,
                   timestamp_to_message, table, report, graph, graph_files, browser>>

\* lines 98-123
Render ==
    /\ pc = "render"
    /\ ~Failed(RenderTable(timestamp_to_message, block_logs))
    /\ table' = RenderTable(timestamp_to_message, block_logs).value
    /\ pc' = "write"
    /\ UNCHANGED <<block_analysis_file, summary_file, block_logs, all_messages,
                   timestamp_to_message, report, graph, graph_files, browser>>

\* the exception of html_for_message leaves main
RenderFails ==
    /\ pc = "render"
    /\ Failed(RenderTable(timestamp_to_message, block_logs))
    /\ pc' = "error"
    /\ UNCHANGED <<block_analysis_file, summary_file, block_logs, all_messages,
                   timestamp_to_message, table, report, graph, graph_files, browser>>

\* lines 158-162
WriteReport ==
    /\ pc = "write"
    /\ report' = [written |-> TRUE, table |-> table]
    /\ pc' = "visualize"
    /\ UNCHANGED <<block_analysis_file, summary_file, block_logs, all_messages,
                   timestamp_to_message, table, graph, graph_files, browser>>

\* line 163: visualize(output_path), lines 126-141
Visualize ==
    /\ pc = "visualize"
    /\ graph' = BuildGraph(summary_file)
    /\ graph_files' = {"graph.dot", "graph.png"}
    /\ pc' = "browser"
    /\ UNCHANGED <<block_analysis_file, summary_file, block_logs, all_messages,
                   timestamp_to_message, table, report, browser>>

\* line 164
OpenBrowser ==
    /\ pc = "browser"
    /\ browser' = TRUE
    /\ pc' = "done"
    /\ UNCHANGED <<block_analysis_file, summary_file, block_logs, all_messages,
                   timestamp_to_message, table, report, graph, graph_files>>

Next ==
    \/ ParseLogs
    \/ Collect
    \/ ReturnEmpty
    \/ Sort
    \/ AlignMessages
    \/ AlignFails
    \/ Render
    \/ RenderFails
    \/ WriteReport
    \/ Visualize
    \/ OpenBrowser

Spec == Init /\ [][Next]_vars

----------------------------------------------------------------------------
(* Vocabulary of the properties *)

\* main has left the aligner / the renderer of html_dict_to_html_table normally
\* (a run that ends at line 154 is done without having opened the browser)
Rendered == pc \in {"write", "visualize", "browser"} \/ (pc = "done" /\ browser)
Aligned == pc = "render" \/ Rendered

\* the messages of the input file, worker by worker
InputMessages ==
    {m \in UNION {IF Has(block_analysis_file.val[k], "messages")
                  THEN {block_analysis_file.val[k]["messages"][i] :
                          i \in 1..Len(block_analysis_file.val[k]["messages"])}
                  ELSE {} : k \in KeySet(block_analysis_file)} : TRUE}

AllFromKnown == \A m \in InputMessages : m["from"] \in KeySet(block_analysis_file)

\* the positions <<row, column>> of the rendered cells that hold a message
MessageCells ==
    IF Rendered
    THEN {x \in {<<r, c>> : r \in 1..Len(table.rows), c \in 1..Len(block_logs.keys)} :
             table.rows[x[1]].cells[x[2]].td = "message"}
    ELSE {}

CellAt(x) == table.rows[x[1]].cells[x[2]].html
MessageAt(x) == timestamp_to_message.val[timestamp_to_message.keys[x[1]]][x[2]]
InfosAt(x) == block_logs.val[MessageAt(x)["from"]]

\* what the markup shows for a list of senders
Shown(senders) == IF Len(senders) = 0 THEN <<SELF>> ELSE senders

----------------------------------------------------------------------------
\* the rule table of the classifier: <<senders, receivers, arrow>> by type
C1_RuleTable(type, from, predecessors, successors) ==
    CASE type = "BLOCK_POSTCONDITION" -> <<predecessors, successors, "&darr;">>
      [] type = "ERROR_CONDITION" -> <<successors, predecessors, "&uarr;">>
      [] type = "ERROR_CONDITION_UNREACHABLE" -> <<successors, <<ALL>>, "&uarr;">>
      [] type = "FOUND_RESULT" -> <<<<from>>, <<ALL>>, "-">>
      [] OTHER -> <<<<ALL>>, <<ALL>>, "-">>

(* C1: for a message whose worker declares both predecessors and successors the
   classifier yields, by type: BLOCK_POSTCONDITION -> senders = predecessors,
   receivers = successors, arrow down; ERROR_CONDITION -> senders = successors,
   receivers = predecessors, arrow up; ERROR_CONDITION_UNREACHABLE -> senders =
   successors, receivers = {"all"}, arrow up; FOUND_RESULT -> senders = {from},
   receivers = {"all"}, neutral arrow; any other type -> senders = receivers =
   {"all"}, neutral arrow; and the rendered cell shows exactly these. *)
C1_ClassifierFollowsRuleTable ==
    \A x \in MessageCells :
        LET m == MessageAt(x)
            infos == InfosAt(x)
        IN (Has(infos, "predecessors") /\ Has(infos, "successors")) =>
             LET want == C1_RuleTable(m["type"], m["from"],
                                      infos["predecessors"], infos["successors"])
                 got == Classify(m, infos)
             IN /\ got.senders = want[1]
                /\ got.receivers = want[2]
                /\ got.arrow = want[3]
                /\ CellAt(x).sender = Shown(want[1])
                /\ CellAt(x).receiver = want[2]
                /\ CellAt(x).arrow = want[3]

C1_Witness ==
    /\ pc = "done"
    /\ \E x \in MessageCells :
          /\ MessageAt(x)["type"] = "ERROR_CONDITION_UNREACHABLE"
          /\ Has(InfosAt(x), "predecessors") /\ Has(InfosAt(x), "successors")
          /\ InfosAt(x)["predecessors"] = <<B0>>
          /\ InfosAt(x)["successors"] = <<B1>>

----------------------------------------------------------------------------
(* C8, as claimed: for a BLOCK_POSTCONDITION message whose worker declares no
   successors the receivers are {"all"} and the senders remain the worker's
   declared predecessors. *)
C8_ReceiversAllWithoutSuccessors ==
    \A x \in MessageCells :
        (/\ MessageAt(x)["type"] = "BLOCK_POSTCONDITION"
         /\ (~Has(InfosAt(x), "successors") \/ InfosAt(x)["successors"] = <<>>)) =>
            /\ Classify(MessageAt(x), InfosAt(x)).receivers = <<ALL>>
            /\ CellAt(x).receiver = <<ALL>>

(* C8, amended: for a BLOCK_POSTCONDITION message whose worker has no
   successors field the receivers are the substitute ["none"], and for one
   whose successors field is the empty list the receivers are empty; the
   senders are the declared predecessors (["none"] when that field is absent). *)
C8_ReceiversNoneWithoutSuccessors ==
    \A x \in MessageCells :
        LET infos == InfosAt(x)
            got == Classify(MessageAt(x), infos)
        IN (/\ MessageAt(x)["type"] = "BLOCK_POSTCONDITION"
            /\ (~Has(infos, "successors") \/ infos["successors"] = <<>>)) =>
              /\ got.receivers = IF Has(infos, "successors") THEN <<>> ELSE <<NONE>>
              /\ CellAt(x).receiver = got.receivers
              /\ got.senders = IF Has(infos, "predecessors")
                               THEN infos["predecessors"] ELSE <<NONE>>
              /\ CellAt(x).sender = Shown(got.senders)

C8_Witness ==
    /\ pc = "done"
    /\ \E x \in MessageCells :
          /\ MessageAt(x)["type"] = "BLOCK_POSTCONDITION"
          /\ ~Has(InfosAt(x), "successors")
          /\ Has(InfosAt(x), "predecessors")
          /\ InfosAt(x)["predecessors"] = <<B0>>
          /\ CellAt(x).receiver = <<NONE>>

----------------------------------------------------------------------------
\* the input is the scenario: workers B0 (successors [B1]) and B1 (predecessors
\* [B0]) and one BLOCK_POSTCONDITION message of B0 at timestamp 100
C9_Scenario ==
    /\ block_analysis_file = ScenarioLogs
    /\ summary_file = WithoutMessages(ScenarioLogs)

\* the table of the scenario, with the given name as the sender reacted to

C9_Table(sender) ==
    [headers |-> <<TIME, B0, B1>>,
     rows |-> << [time |-> <<"0">>,
                  cells |-> << [td |-> "message",
                                klass |-> "precondition",
                                html |-> [title |-> <<"int x = 0;", "x++;">>,
                                          arrow |-> "&darr;",
                                          sender |-> <<sender>>,
                                          receiver |-> <<B1>>,
                                          direction |-> "BLOCK_POSTCONDITION",
                                          textarea |-> "x > 0"]],
                               [td |-> "empty"] >>] >>]

(* C9, as claimed: the table has exactly one data row, of relative time 0,
   whose B0 cell names B0 as the sender reacted to and B1 as the receiver, whose
   B1 cell is empty, and the graph has exactly the edge B0 -> B1. *)
C9_ScenarioSenderB0 ==
    (C9_Scenario /\ pc = "done") =>
        /\ report = [written |-> TRUE, table |-> C9_Table(B0)]
        /\ graph.edges = {<<B0, B1>>}

(* C9, amended: the run ends normally and the table has exactly one data row,
   of relative time 0, whose B0 cell names "none" (B0 declares no predecessors)
   as the sender reacted to and B1 as the receiver, whose B1 cell is empty, and
   the graph has exactly the edge B0 -> B1. *)
C9_ScenarioSenderNone ==
    C9_Scenario =>
        /\ pc # "error"
        /\ pc = "done" =>
              /\ report = [written |-> TRUE, table |-> C9_Table(NONE)]
              /\ graph.edges = {<<B0, B1>>}
              /\ DOMAIN graph.nodes = {B0, B1}

C9_Witness == C9_Scenario /\ pc = "done" /\ report.written

----------------------------------------------------------------------------
(* C7: missing optional fields never make the run fail: with predecessors or
   successors absent, or the payload absent or empty, classification and
   rendering complete with the substitute value (["none"], the placeholder). *)
C7_MissingOptionalFieldsAreNotFatal ==
    AllFromKnown =>
        /\ pc # "error"
        /\ \A x \in MessageCells :
              (~Has(MessageAt(x), "payload") \/ MessageAt(x)["payload"] = "") =>
                    CellAt(x).textarea = "no contents available"

----------------------------------------------------------------------------
\* no worker of the log has a message
C5_NoMessagesInLog ==
    \A k \in KeySet(block_analysis_file) :
        \/ ~Has(block_analysis_file.val[k], "messages")
        \/ block_analysis_file.val[k]["messages"] = <<>>

(* C5: if no worker of the log has any message the run ends normally without
   rendering a table, writing the report, building or writing the graph, or
   opening the browser. *)
C5_EmptyLogRendersNothing ==
    C5_NoMessagesInLog =>
        /\ pc \in {"start", "collect", "check", "done"}
        /\ table = NoTable
        /\ report = NoFile
        /\ graph = NoGraph
        /\ graph_files = {}
        /\ ~browser

C5_Witness ==
    /\ C5_NoMessagesInLog
    /\ pc = "done"
    /\ \E k \in KeySet(block_analysis_file) :
          /\ Has(block_analysis_file.val[k], "messages")
          /\ block_analysis_file.val[k]["messages"] = <<>>
    /\ \E k \in KeySet(block_analysis_file) : ~Has(block_analysis_file.val[k], "messages")

----------------------------------------------------------------------------
(* C6: if some message of the log comes from a worker that is no worker of the
   log, the run ends in the fatal error state, wherever that message stands in
   the sorted sequence, and no report is written (nor anything after it). *)
C6_UnknownSenderIsFatal ==
    ~AllFromKnown =>
        /\ pc \in {"start", "collect", "check", "align", "error"}
        /\ table = NoTable
        /\ report = NoFile
        /\ graph = NoGraph
        /\ ~browser

\* the offending message is the last of three in the sorted sequence
C6_Witness ==
    /\ pc = "error"
    /\ Len(all_messages) = 3
    /\ all_messages[3]["from"] = B7
    /\ all_messages[1]["from"] # B7 /\ all_messages[2]["from"] # B7

----------------------------------------------------------------------------
\* the slot (m.timestamp - first_timestamp, column of m.from) of the matrix
C2_Slot(m) ==
    timestamp_to_message.val[m["timestamp"] - all_messages[1]["timestamp"]]
                            [IndexDict(SortedKeys(block_logs))[m["from"]] + 1]

(* C2: once the aligner has processed a sequence whose messages all come from
   known workers, no message is dropped: every message m sits in the slot
   (m.timestamp - first_timestamp, column of m.from), unless a message of the
   same worker and timestamp was processed after it, in which case the last
   such message sits there; every occupied slot holds a message of its own
   column's worker and its own row's relative timestamp. *)
C2_NoMessageDropped ==
    (Aligned /\ AllFromKnown) =>
        /\ \A i \in 1..Len(all_messages) :
              LET m == all_messages[i]
                  same == {j \in 1..Len(all_messages) :
                              /\ all_messages[j]["from"] = m["from"]
                              /\ all_messages[j]["timestamp"] = m["timestamp"]}
                  last == CHOOSE j \in same : \A k \in same : k <= j
              IN /\ (m["timestamp"] - all_messages[1]["timestamp"])
                        \in DOMAIN timestamp_to_message.val
                 /\ C2_Slot(m) = all_messages[last]
        /\ \A rel \in DOMAIN timestamp_to_message.val :
              /\ Len(timestamp_to_message.val[rel]) = Len(block_logs.keys)
              /\ \A c \in 1..Len(block_logs.keys) :
                    LET slot == timestamp_to_message.val[rel][c]
                    IN ~IsEmptySlot(slot) =>
                          /\ slot["from"] = SortedKeys(block_logs)[c]
                          /\ slot["timestamp"] - all_messages[1]["timestamp"] = rel
                          /\ \E i \in 1..Len(all_messages) : all_messages[i] = slot
        /\ {all_messages[i] : i \in 1..Len(all_messages)} = InputMessages
        /\ all_messages[1]["timestamp"] \in {m["timestamp"] : m \in InputMessages}
        /\ \A m \in InputMessages : all_messages[1]["timestamp"] <= m["timestamp"]

\* two different messages of one worker at one timestamp, and a second worker
C2_Witness ==
    /\ pc = "done"
    /\ Len(block_logs.keys) = 2
    /\ Len(all_messages) = 3
    /\ \E i, j \in 1..3 :
          /\ i < j
          /\ all_messages[i]["from"] = all_messages[j]["from"]
          /\ all_messages[i]["timestamp"] = all_messages[j]["timestamp"]
          /\ all_messages[i] # all_messages[j]
          /\ C2_Slot(all_messages[i]) = all_messages[j]

----------------------------------------------------------------------------
\* the relative timestamps of the log, from its input
C3_InputTimestamps == {m["timestamp"] : m \in InputMessages}

C3_First == CHOOSE t \in C3_InputTimestamps : \A u \in C3_InputTimestamps : t <= u

C3_Relative == {t - C3_First : t \in C3_InputTimestamps}

\* the i-th smallest relative timestamp
C3_Nth(i) == CHOOSE t \in C3_Relative : Cardinality({u \in C3_Relative : u < t}) = i - 1

(* C3: the rendered table has exactly one row per distinct relative timestamp,
   in strictly ascending order of relative timestamp, relative to the smallest
   timestamp of the log (the first of the sorted sequence): every row key is
   >= 0 and the first row has key 0. *)
C3_RowsAscending ==
    Rendered =>
        /\ Len(table.rows) = Cardinality(C3_Relative)
        /\ \A i \in 1..Len(table.rows) :
              /\ table.rows[i].time = IntToStr(C3_Nth(i))
              /\ timestamp_to_message.keys[i] = C3_Nth(i)
              /\ timestamp_to_message.keys[i] >= 0
        /\ table.rows[1].time = <<"0">>

\* two rows, from a log that lists the later message first
C3_Witness ==
    /\ pc = "done"
    /\ Len(table.rows) = 2
    /\ table.rows[2].time = <<"2">>
    /\ \E k \in KeySet(block_analysis_file) :
          /\ Has(block_analysis_file.val[k], "messages")
          /\ Len(block_analysis_file.val[k]["messages"]) = 2
          /\ block_analysis_file.val[k]["messages"][1]["timestamp"] = 102
          /\ block_analysis_file.val[k]["messages"][2]["timestamp"] = 100

----------------------------------------------------------------------------
\* the worker columns of the header are in non-decreasing numeric order
C4_ColumnsOrdered ==
    \A i, j \in 2..Len(table.headers) :
        i < j => IntOf(Slice1(table.headers[i])) <= IntOf(Slice1(table.headers[j]))

(* C4, as claimed: the number of worker columns of the rendered table, in the
   header and in every data row, is the number of worker identifiers of the
   summary file, and the columns are in non-decreasing order of the numeric
   suffix. *)
C4_ColumnsOfSummaryFile ==
    Rendered =>
        /\ Len(table.headers) - 1 = Cardinality(KeySet(summary_file))
        /\ \A r \in 1..Len(table.rows) :
              Len(table.rows[r].cells) = Cardinality(KeySet(summary_file))
        /\ C4_ColumnsOrdered

(* C4, amended: the number of worker columns of the rendered table, in the
   header and in every data row, is the number of worker identifiers of the
   block-analysis file (the log the table is built from), each of them heading
   one column, and the columns are in non-decreasing order of the numeric
   suffix. *)
C4_ColumnsOfAnalysisFile ==
    Rendered =>
        /\ table.headers[1] = TIME
        /\ Len(table.headers) - 1 = Cardinality(KeySet(block_analysis_file))
        /\ {table.headers[i] : i \in 2..Len(table.headers)} = KeySet(block_analysis_file)
        /\ \A r \in 1..Len(table.rows) :
              Len(table.rows[r].cells) = Cardinality(KeySet(block_analysis_file))
        /\ C4_ColumnsOrdered

\* B10 precedes B2 in the file and as a string, and follows it in the table
C4_Witness ==
    /\ pc = "done"
    /\ block_analysis_file.keys = <<B10, B2>>
    /\ table.headers = <<TIME, B2, B10>>
    /\ Len(table.rows) = 2

----------------------------------------------------------------------------
\* visualize has returned
C10_Built == pc = "browser" \/ (pc = "done" /\ browser)

\* the pairs (w, s) with s listed in the successors of worker w of the summary
C10_DeclaredEdges ==
    {e \in KeySet(summary_file) \X {B0, B1, B2} :
        /\ Has(summary_file.val[e[1]], "successors")
        /\ \E j \in 1..Len(summary_file.val[e[1]]["successors"]) :
              summary_file.val[e[1]]["successors"][j] = e[2]}

(* C10, as claimed: the graph built by visualize has exactly one node per worker
   identifier of the summary file and no other node, and exactly the edges
   (w, s) with s listed in the successors of w; a worker without a successors
   field has no outgoing edge. *)
C10_NodesAreTheWorkers ==
    C10_Built =>
        /\ DOMAIN graph.nodes = KeySet(summary_file)
        /\ graph.edges = C10_DeclaredEdges

(* C10, amended: the graph has one node per worker identifier of the summary
   file and one more node (without label) per identifier that is listed as a
   successor without being a worker of the file, and no other node; it has
   exactly the edges (w, s) with s listed in the successors of w; a worker
   without a successors field has no outgoing edge. *)
C10_NodesAreWorkersAndSuccessors ==
    C10_Built =>
        /\ DOMAIN graph.nodes = KeySet(summary_file) \cup {e[2] : e \in C10_DeclaredEdges}
        /\ graph.edges = C10_DeclaredEdges
        /\ \A k \in KeySet(summary_file) :
              /\ Has(graph.nodes[k], "label") /\ graph.nodes[k]["label"].id = k
              /\ ~Has(summary_file.val[k], "successors") =>
                    ~\E e \in graph.edges : e[1] = k
        /\ \A n \in DOMAIN graph.nodes \ KeySet(summary_file) : graph.nodes[n] = NoField
        /\ (Len(summary_file.keys) = 1
              /\ ~Has(summary_file.val[summary_file.keys[1]], "successors")) =>
                    (Cardinality(DOMAIN graph.nodes) = 1 /\ graph.edges = {})

\* a successor that is no worker of the file, next to a declared edge
C10_Witness ==
    /\ pc = "done"
    /\ summary_file.keys = <<B0, B1>>
    /\ graph.edges = {<<B0, B1>>, <<B1, B2>>}
    /\ DOMAIN graph.nodes = {B0, B1, B2}

====
